---- MODULE Spec2Model ----
(***************************************************************************)
(* Instruction decoding of the pumpfun-tokens template (abi-support.ts):   *)
(* an Instruction built by instruction(d, accounts, data) and its decode,  *)
(* decodeAccounts, decodeData, assertDiscriminator and                     *)
(* createDiscriminatorAssertion methods, with the hex decoding of the      *)
(* declared discriminator and the reader (Src) the checks are made with.   *)
(***************************************************************************)
EXTENDS Integers, Sequences, FiniteSets, TLC

\* Number of decode / decodeData calls explored on one Instruction.
MaxCalls == 3
\* The callers that share the Instruction.
Callers == {"c1", "c2"}

\* F applied to a value computed once (a const binding of the source)
Bind(x, F(_)) == F(x)

(***************************************************************************)
(* JavaScript values.  A number or bigint is kept as its base-65536 digits *)
(* (least significant first), so that 32- and 64-bit reads keep their full *)
(* width; two values are === when type and digits agree.                   *)
(***************************************************************************)
Undefined == [type |-> "undefined", limbs |-> <<>>]
JsTrue == [type |-> "boolean", limbs |-> <<1>>]
JsFalse == [type |-> "boolean", limbs |-> <<0>>]
Absent == <<"absent">>

(***************************************************************************)
(* decodeHex: strings are sequences of one-character strings.              *)
(***************************************************************************)
HexChars ==
  <<"0","1","2","3","4","5","6","7","8","9","a","b","c","d","e","f",
    "A","B","C","D","E","F">>

IsHexChar(c) == \E i \in 1..Len(HexChars) : HexChars[i] = c

HexVal(c) ==
  LET i == CHOOSE j \in 1..Len(HexChars) : HexChars[j] = c
  IN IF i <= 16 THEN i - 1 ELSE i - 7

\* bytes[i] = parseInt(two characters, 16): parseInt reads the longest prefix
\* of hex digits and yields NaN when there is none; a NaN stored in a
\* Uint8Array is 0.
ParseIntByte(c1, c2) ==
  IF ~IsHexChar(c1) THEN 0
  ELSE IF ~IsHexChar(c2) THEN HexVal(c1)
  ELSE 16 * HexVal(c1) + HexVal(c2)

startsWith0x(hex) == Len(hex) >= 2 /\ hex[1] = "0" /\ hex[2] = "x"

\* the prefix is not removed: its two characters are parsed as a byte
decodeHexKeepsPrefix(hex) ==
  [i \in 1..(Len(hex) \div 2) |-> ParseIntByte(hex[2 * i - 1], hex[2 * i])]

decodeHex(hex) ==
  LET h == IF startsWith0x(hex) THEN SubSeq(hex, 3, Len(hex)) ELSE hex
      n == Len(h) \div 2
  IN [i \in 1..n |-> ParseIntByte(h[2 * i - 1], h[2 * i])]

(***************************************************************************)
(* Src: a reader over a byte buffer with a position.  Every read is        *)
(* little-endian and throws a RangeError when it would pass the end.       *)
(***************************************************************************)
RangeError == [kind |-> "RangeError", actual |-> Undefined, expected |-> Undefined]

SrcU8(buf, pos) ==
  IF pos + 1 > Len(buf)
  THEN [threw |-> TRUE, val |-> Undefined, pos |-> pos]
  ELSE [threw |-> FALSE,
        val |-> [type |-> "number", limbs |-> <<buf[pos + 1]>>],
        pos |-> pos + 1]

SrcU16(buf, pos) ==
  IF pos + 2 > Len(buf)
  THEN [threw |-> TRUE, val |-> Undefined, pos |-> pos]
  ELSE [threw |-> FALSE,
        val |-> [type |-> "number", limbs |-> <<buf[pos + 1] + 256 * buf[pos + 2]>>],
        pos |-> pos + 2]

SrcU32(buf, pos) ==
  IF pos + 4 > Len(buf)
  THEN [threw |-> TRUE, val |-> Undefined, pos |-> pos]
  ELSE [threw |-> FALSE,
        val |-> [type |-> "number",
                 limbs |-> <<buf[pos + 1] + 256 * buf[pos + 2],
                             buf[pos + 3] + 256 * buf[pos + 4]>>],
        pos |-> pos + 4]

SrcU64(buf, pos) ==
  IF pos + 8 > Len(buf)
  THEN [threw |-> TRUE, val |-> Undefined, pos |-> pos]
  ELSE [threw |-> FALSE,
        val |-> [type |-> "bigint",
                 limbs |-> <<buf[pos + 1] + 256 * buf[pos + 2],
                             buf[pos + 3] + 256 * buf[pos + 4],
                             buf[pos + 5] + 256 * buf[pos + 6],
                             buf[pos + 7] + 256 * buf[pos + 8]>>],
        pos |-> pos + 8]

SrcRead(read, buf, pos) ==
  CASE read = "u64" -> SrcU64(buf, pos)
    [] read = "u32" -> SrcU32(buf, pos)
    [] read = "u16" -> SrcU16(buf, pos)
    [] read = "u8" -> SrcU8(buf, pos)

\* no error: the call returned
NoError == [kind |-> "none", actual |-> Undefined, expected |-> Undefined]

(***************************************************************************)
(* The data codec handed to instruction(): a struct of little-endian       *)
(* integer fields read one after another from the reader (the empty struct *)
(* is unit).  Its value is the sequence of the fields read.                *)
(***************************************************************************)
RECURSIVE CodecFields(_, _, _, _)
CodecFields(fields, buf, pos, acc) ==
  IF fields = <<>>
  THEN [threw |-> FALSE, err |-> NoError, val |-> acc, pos |-> pos]
  ELSE Bind(SrcRead(Head(fields), buf, pos), LAMBDA r :
         IF r.threw
         THEN [threw |-> TRUE, err |-> RangeError, val |-> <<>>, pos |-> pos]
         ELSE CodecFields(Tail(fields), buf, r.pos, Append(acc, r.val)))

CodecDecode(codec, buf, pos) == CodecFields(codec, buf, pos, <<>>)

(***************************************************************************)
(* Instruction                                                             *)
(***************************************************************************)
\* assert(value) of node's assert module: an AssertionError whose actual is
\* the value asserted and whose expected is true.
AssertionError ==
  [kind |-> "AssertionError", actual |-> JsFalse, expected |-> JsTrue]

\* as assert.strictEqual(v, d) would report it: the error carries both values
CheckDiscriminatorStrictEqual(d, v) ==
  IF d = v THEN NoError
  ELSE [kind |-> "AssertionError", actual |-> v, expected |-> d]

\* assert(d === src.uN()) for the constant d and the value v just read
CheckDiscriminator(d, v) == IF d = v THEN NoError ELSE AssertionError

\* the value of _assertDiscriminator before the first assignment
NullAssertion == [read |-> "null", d |-> Undefined]

instruction(d, accounts, data) ==
  [accounts |-> accounts, data |-> data,
   d8 |-> d.d8, d4 |-> d.d4, d1 |-> d.d1,
   _assertDiscriminator |-> NullAssertion]

RECURSIVE Reverse(_)
Reverse(q) == IF q = <<>> THEN <<>> ELSE Append(Reverse(Tail(q)), Head(q))

\* the constant is taken as a big-endian integer while the payload is read
\* little-endian
CompileAssertionBigEndian(read, hex) ==
  Bind(SrcRead(read, Reverse(decodeHex(hex)), 0), LAMBDA r :
    IF r.threw
    THEN [threw |-> TRUE, err |-> RangeError, fn |-> NullAssertion]
    ELSE [threw |-> FALSE, err |-> NoError, fn |-> [read |-> read, d |-> r.val]])

CompileAssertion(read, hex) ==
  Bind(SrcRead(read, decodeHex(hex), 0), LAMBDA r :
    IF r.threw
    THEN [threw |-> TRUE, err |-> RangeError, fn |-> NullAssertion]
    ELSE [threw |-> FALSE, err |-> NoError, fn |-> [read |-> read, d |-> r.val]])

\* a definition that declares no discriminator is refused instead of accepted
createDiscriminatorAssertionNoDefault(self) ==
  IF self.d8 # Absent THEN CompileAssertion("u64", self.d8)
  ELSE IF self.d4 # Absent THEN CompileAssertion("u32", self.d4)
  ELSE IF self.d1 # Absent THEN CompileAssertion("u8", self.d1)
  ELSE [threw |-> TRUE, err |-> AssertionError, fn |-> NullAssertion]

\* the narrowest declared width is taken: d1 before d4 before d8
createDiscriminatorAssertionNarrowFirst(self) ==
  IF self.d1 # Absent THEN CompileAssertion("u8", self.d1)
  ELSE IF self.d4 # Absent THEN CompileAssertion("u32", self.d4)
  ELSE IF self.d8 # Absent THEN CompileAssertion("u64", self.d8)
  ELSE [threw |-> FALSE, err |-> NoError, fn |-> [read |-> "none", d |-> Undefined]]

createDiscriminatorAssertion(self) ==
  IF self.d8 # Absent THEN CompileAssertion("u64", self.d8)
  ELSE IF self.d4 # Absent THEN CompileAssertion("u32", self.d4)
  ELSE IF self.d1 # Absent THEN CompileAssertion("u8", self.d1)
  ELSE [threw |-> FALSE, err |-> NoError, fn |-> [read |-> "none", d |-> Undefined]]

\* the check compares without consuming: the reader is left where it was
CallAssertionPeek(fn, buf, pos) ==
  IF fn.read = "none"
  THEN [threw |-> FALSE, err |-> NoError, pos |-> pos]
  ELSE Bind(SrcRead(fn.read, buf, pos), LAMBDA r :
         IF r.threw
         THEN [threw |-> TRUE, err |-> RangeError, pos |-> pos]
         ELSE Bind(CheckDiscriminator(fn.d, r.val), LAMBDA e :
                [threw |-> e # NoError, err |-> e, pos |-> pos]))

\* the comparison is made and its result dropped (no assert around it)
CallAssertionNoAssert(fn, buf, pos) ==
  IF fn.read = "none"
  THEN [threw |-> FALSE, err |-> NoError, pos |-> pos]
  ELSE Bind(SrcRead(fn.read, buf, pos), LAMBDA r :
         IF r.threw
         THEN [threw |-> TRUE, err |-> RangeError, pos |-> pos]
         ELSE [threw |-> FALSE, err |-> NoError, pos |-> r.pos])

\* calling the closure createDiscriminatorAssertion returned on a reader
CallAssertion(fn, buf, pos) ==
  IF fn.read = "none"
  THEN [threw |-> FALSE, err |-> NoError, pos |-> pos]
  ELSE Bind(SrcRead(fn.read, buf, pos), LAMBDA r :
         IF r.threw
         THEN [threw |-> TRUE, err |-> RangeError, pos |-> pos]
         ELSE Bind(CheckDiscriminator(fn.d, r.val), LAMBDA e :
                [threw |-> e # NoError, err |-> e, pos |-> r.pos]))

\* the call of the check sits inside the if: only the first call checks
assertDiscriminatorCallInsideIf(self, buf, pos) ==
  IF self._assertDiscriminator = NullAssertion
  THEN Bind(createDiscriminatorAssertion(self), LAMBDA c :
         IF c.threw
         THEN [threw |-> TRUE, err |-> c.err, pos |-> pos,
               cache |-> self._assertDiscriminator, creates |-> 1, builds |-> 0,
          checks |-> 0]
         ELSE Bind(CallAssertion(c.fn, buf, pos), LAMBDA a :
                [threw |-> a.threw, err |-> a.err, pos |-> a.pos,
                 cache |-> c.fn, creates |-> 1, builds |-> 1, checks |-> 1]))
  ELSE [threw |-> FALSE, err |-> NoError, pos |-> pos,
        cache |-> self._assertDiscriminator, creates |-> 0, builds |-> 0,
        checks |-> 0]

\* the check is created on every call and never stored
assertDiscriminatorNoStore(self, buf, pos) ==
  Bind(createDiscriminatorAssertion(self), LAMBDA c :
    IF c.threw
    THEN [threw |-> TRUE, err |-> c.err, pos |-> pos,
          cache |-> self._assertDiscriminator, creates |-> 1, builds |-> 0,
          checks |-> 0]
    ELSE Bind(CallAssertion(c.fn, buf, pos), LAMBDA a :
           [threw |-> a.threw, err |-> a.err, pos |-> a.pos,
            cache |-> self._assertDiscriminator, creates |-> 1, builds |-> 0,
            checks |-> 1]))

\* the check is created and stored again on every call (no null test)
assertDiscriminatorRebuild(self, buf, pos) ==
  Bind(createDiscriminatorAssertion(self), LAMBDA c :
    IF c.threw
    THEN [threw |-> TRUE, err |-> c.err, pos |-> pos,
          cache |-> self._assertDiscriminator, creates |-> 1, builds |-> 0,
          checks |-> 0]
    ELSE Bind(CallAssertion(c.fn, buf, pos), LAMBDA a :
           [threw |-> a.threw, err |-> a.err, pos |-> a.pos,
            cache |-> c.fn, creates |-> 1, builds |-> 1, checks |-> 1]))

\* creates: runs of createDiscriminatorAssertion; builds: assignments to
\* _assertDiscriminator; checks: calls of the check; all within this one call
assertDiscriminator(self, buf, pos) ==
  IF self._assertDiscriminator = NullAssertion
  THEN Bind(createDiscriminatorAssertion(self), LAMBDA c :
         IF c.threw
         THEN [threw |-> TRUE, err |-> c.err, pos |-> pos,
               cache |-> self._assertDiscriminator, creates |-> 1, builds |-> 0,
          checks |-> 0]
         ELSE Bind(CallAssertion(c.fn, buf, pos), LAMBDA a :
                [threw |-> a.threw, err |-> a.err, pos |-> a.pos,
                 cache |-> c.fn, creates |-> 1, builds |-> 1, checks |-> 1]))
  ELSE Bind(CallAssertion(self._assertDiscriminator, buf, pos), LAMBDA a :
         [threw |-> a.threw, err |-> a.err, pos |-> a.pos,
          cache |-> self._assertDiscriminator, creates |-> 0, builds |-> 0,
          checks |-> 1])

\* the codec is given a reader of its own, new Src(data), instead of src
decodeDataNewSrc(self, data) ==
  Bind(assertDiscriminator(self, data, 0), LAMBDA a :
    IF a.threw
    THEN [threw |-> TRUE, err |-> a.err, data |-> <<>>, cache |-> a.cache,
          creates |-> a.creates, builds |-> a.builds,
          checks |-> a.checks,
          codecCalls |-> 0, codecOffset |-> -1]
    ELSE Bind(CodecDecode(self.data, data, 0), LAMBDA c :
           [threw |-> c.threw,
            err |-> c.err,
            data |-> c.val, cache |-> a.cache,
            creates |-> a.creates, builds |-> a.builds,
            checks |-> a.checks,
            codecCalls |-> 1, codecOffset |-> 0]))

\* the codec's error is caught and a new Error is thrown in its place
decodeDataNewError(self, data) ==
  Bind(assertDiscriminator(self, data, 0), LAMBDA a :
    IF a.threw
    THEN [threw |-> TRUE, err |-> a.err, data |-> <<>>, cache |-> a.cache,
          creates |-> a.creates, builds |-> a.builds,
          checks |-> a.checks,
          codecCalls |-> 0, codecOffset |-> -1]
    ELSE Bind(CodecDecode(self.data, data, a.pos), LAMBDA c :
           [threw |-> c.threw,
            err |-> IF c.threw
                    THEN [kind |-> "Error", actual |-> Undefined,
                          expected |-> Undefined]
                    ELSE NoError,
            data |-> c.val, cache |-> a.cache,
            creates |-> a.creates, builds |-> a.builds,
            checks |-> a.checks,
            codecCalls |-> 1, codecOffset |-> a.pos]))

\* a codec that fails is tried a second time on a fresh reader
decodeDataRetry(self, data) ==
  Bind(assertDiscriminator(self, data, 0), LAMBDA a :
    IF a.threw
    THEN [threw |-> TRUE, err |-> a.err, data |-> <<>>, cache |-> a.cache,
          creates |-> a.creates, builds |-> a.builds,
          checks |-> a.checks,
          codecCalls |-> 0, codecOffset |-> -1]
    ELSE Bind(CodecDecode(self.data, data, a.pos), LAMBDA c :
           [threw |-> c.threw, err |-> c.err,
            data |-> c.val, cache |-> a.cache,
            creates |-> a.creates, builds |-> a.builds,
            checks |-> a.checks,
            codecCalls |-> IF c.threw THEN 2 ELSE 1, codecOffset |-> a.pos]))

\* codecCalls: invocations of this.data.decode; codecOffset: the reader's
\* position when it was invoked (-1 when it was not)
decodeData(self, data) ==
  Bind(assertDiscriminator(self, data, 0), LAMBDA a :
    IF a.threw
    THEN [threw |-> TRUE, err |-> a.err, data |-> <<>>, cache |-> a.cache,
          creates |-> a.creates, builds |-> a.builds,
          checks |-> a.checks,
          codecCalls |-> 0, codecOffset |-> -1]
    ELSE Bind(CodecDecode(self.data, data, a.pos), LAMBDA c :
           [threw |-> c.threw,
            err |-> c.err,
            data |-> c.val, cache |-> a.cache,
            creates |-> a.creates, builds |-> a.builds,
            checks |-> a.checks,
            codecCalls |-> 1, codecOffset |-> a.pos]))

(***************************************************************************)
(* decodeAccounts: for (key in this.accounts) visits the keys that are     *)
(* array indices first, in ascending numeric order, then the other keys in *)
(* the order they were declared.  accounts[i] past the end is undefined.   *)
(***************************************************************************)
IndexKeys == <<"0","1","2","3","4","5","6","7","8","9">>

IsIndexKey(k) == \E i \in 1..Len(IndexKeys) : IndexKeys[i] = k

RECURSIVE SortedIndexKeys(_, _)
SortedIndexKeys(slots, n) ==
  IF n > Len(IndexKeys) THEN <<>>
  ELSE SelectSeq(slots, LAMBDA s : s.role = IndexKeys[n])
       \o SortedIndexKeys(slots, n + 1)

\* the keys are visited in the order they were declared, as a Map's would be
ForInOrderDeclared(slots) == slots

ForInOrder(slots) ==
  SortedIndexKeys(slots, 1) \o SelectSeq(slots, LAMBDA s : ~IsIndexKey(s.role))

\* the slot is taken as a position counted from one
AccountAtOneBased(accounts, i) ==
  IF i >= 1 /\ i <= Len(accounts) THEN accounts[i] ELSE "undefined"

AccountAt(accounts, i) ==
  IF i >= 0 /\ i < Len(accounts) THEN accounts[i + 1] ELSE "undefined"

decodeAccounts(self, accounts) ==
  Bind(ForInOrder(self.accounts), LAMBDA keys :
    [i \in 1..Len(keys) |->
       [role |-> keys[i].role, value |-> AccountAt(accounts, keys[i].index)]])

\* the accounts already resolved are handed back when decoding the data fails
decodeKeepsAccounts(self, ins) ==
  Bind(decodeAccounts(self, ins.accounts), LAMBDA acc :
    Bind(decodeData(self, ins.data), LAMBDA dd :
      [threw |-> dd.threw, err |-> dd.err,
       accounts |-> acc,
       data |-> dd.data, cache |-> dd.cache,
       creates |-> dd.creates, builds |-> dd.builds,
       checks |-> dd.checks,
       codecCalls |-> dd.codecCalls, codecOffset |-> dd.codecOffset]))

\* the accounts are resolved first behind a range check that throws, so an
\* index past the end is reported before the data is looked at
decodeRangeChecked(self, ins) ==
  IF \E i \in 1..Len(self.accounts) :
       self.accounts[i].index >= Len(ins.accounts)
  THEN [threw |-> TRUE,
        err |-> [kind |-> "RangeError", actual |-> Undefined,
                 expected |-> Undefined],
        accounts |-> <<>>, data |-> <<>>,
        cache |-> self._assertDiscriminator,
        creates |-> 0, builds |-> 0, checks |-> 0,
        codecCalls |-> 0, codecOffset |-> -1]
  ELSE Bind(decodeAccounts(self, ins.accounts), LAMBDA acc :
         Bind(decodeData(self, ins.data), LAMBDA dd :
           [threw |-> dd.threw, err |-> dd.err,
            accounts |-> IF dd.threw THEN <<>> ELSE acc,
            data |-> dd.data, cache |-> dd.cache,
            creates |-> dd.creates, builds |-> dd.builds,
            checks |-> dd.checks,
            codecCalls |-> dd.codecCalls, codecOffset |-> dd.codecOffset]))

\* decode: the accounts are resolved first, then the data is decoded; the
\* object is returned only if neither threw.  ins.data is the payload as
\* bytes, as getInstructionData hands it to decodeData.
decode(self, ins) ==
  Bind(decodeAccounts(self, ins.accounts), LAMBDA acc :
    Bind(decodeData(self, ins.data), LAMBDA dd :
      [threw |-> dd.threw, err |-> dd.err,
       accounts |-> IF dd.threw THEN <<>> ELSE acc,
       data |-> dd.data, cache |-> dd.cache,
       creates |-> dd.creates, builds |-> dd.builds,
       checks |-> dd.checks,
       codecCalls |-> dd.codecCalls, codecOffset |-> dd.codecOffset]))

(***************************************************************************)
(* The inputs explored.                                                    *)
(***************************************************************************)
\* '0x181ec828051c0777', the discriminator of pumpfun's create instruction
HexCreate ==
  <<"0","x","1","8","1","e","c","8","2","8","0","5","1","c","0","7","7","7">>
\* '181ec828' (written without the prefix), '0x181e' and '0x18'
HexFour == SubSeq(HexCreate, 3, 10)
HexTwo == SubSeq(HexCreate, 1, 6)
HexOne == SubSeq(HexCreate, 1, 4)

NoDiscriminator == [d8 |-> Absent, d4 |-> Absent, d1 |-> Absent]

\* the objects passed as d: nothing declared, one width declared with a
\* constant of that width, and d8 declared with a constant of two bytes
Discriminators ==
  { NoDiscriminator,
    [NoDiscriminator EXCEPT !.d8 = HexCreate],
    [NoDiscriminator EXCEPT !.d8 = HexTwo],
    [NoDiscriminator EXCEPT !.d4 = HexFour],
    [NoDiscriminator EXCEPT !.d1 = HexOne] }

\* the slot map of the spec's scenario, and one with two roles on the same
\* index and role names that are array indices
SlotMaps ==
  { <<[role |-> "mint", index |-> 0], [role |-> "user", index |-> 7]>>,
    <<[role |-> "b", index |-> 1], [role |-> "1", index |-> 0],
      [role |-> "0", index |-> 1]>> }

\* unit, and struct({u8, u16})
Codecs == { <<>>, <<"u8", "u16">> }

AllAccounts ==
  <<"A0","A1","A2","A3","A4","A5","A6","A7","A8","A9","A10","A11","A12","A13">>

AccountLists == { AllAccounts, SubSeq(AllAccounts, 1, 5) }

Tag8 == <<24, 30, 200, 40, 5, 28, 7, 119>>
Tag8OneBit == <<24, 30, 200, 40, 5, 28, 7, 118>>
Tag8Reversed == <<119, 7, 28, 5, 40, 200, 30, 24>>

Payloads ==
  { <<>>, <<24, 5, 6>>,
    Tag8 \o <<5, 6, 7>>, Tag8OneBit \o <<5>>, Tag8Reversed \o <<5>> }

(***************************************************************************)
(* State: one Instruction shared by the callers, and a record of the calls *)
(* made on it.                                                             *)
(***************************************************************************)
VARIABLES
  ins,      \* the Instruction, its _assertDiscriminator field included
  creates,  \* runs of createDiscriminatorAssertion so far
  builds,   \* assignments to _assertDiscriminator so far
  ncalls,   \* decode and decodeData calls made so far
  first,    \* the first call: its method, arguments and outcome
  last,     \* the latest call: caller, method, arguments, outcome, trace
  sync,     \* the view sync script (sql/scripts/sync.ts) and its database
  schema,   \* a call of ensureTables and the statements it has sent
  stream,   \* one client of an SSE endpoint, the table it polls, the clock
  pipes,    \* main's calls of retry, one per pipe (main.ts, utils/retry.ts)
  indexer   \* a pump.fun token pipe: its stream, its inserts and its acks

vars == <<ins, creates, builds, ncalls, first, last>>

\* the value of the state of a program that the specification at hand does
\* not run
NotRunning == [pc |-> "none"]

\* what the caller observes: the value returned or the error thrown
Outcome(r) ==
  [kind |-> IF r.threw THEN r.err.kind ELSE "ok",
   accounts |-> r.accounts, data |-> r.data,
   actual |-> r.err.actual, expected |-> r.err.expected]

NoOutcome ==
  [kind |-> "none", accounts |-> <<>>, data |-> <<>>,
   actual |-> Undefined, expected |-> Undefined]

NoCall ==
  [op |-> "none", caller |-> "none", accounts |-> <<>>, data |-> <<>>,
   outcome |-> NoOutcome, checks |-> 0, codecCalls |-> 0, codecOffset |-> -1]

Init ==
  /\ \E d \in Discriminators, a \in SlotMaps, c \in Codecs :
       ins = instruction(d, a, c)
  /\ creates = 0
  /\ builds = 0
  /\ ncalls = 0
  /\ first = NoCall
  /\ last = NoCall
  /\ sync = NotRunning
  /\ schema = NotRunning
  /\ stream = NotRunning
  /\ pipes = NotRunning
  /\ indexer = NotRunning

Record(c, op, accounts, data, r) ==
  LET call == [op |-> op, caller |-> c, accounts |-> accounts, data |-> data,
               outcome |-> Outcome(r), checks |-> r.checks,
               codecCalls |-> r.codecCalls,
               codecOffset |-> r.codecOffset]
  IN /\ ins' = [ins EXCEPT !._assertDiscriminator = r.cache]
     /\ creates' = creates + r.creates
     /\ builds' = builds + r.builds
     /\ ncalls' = ncalls + 1
     /\ first' = IF ncalls = 0 THEN call ELSE first
     /\ last' = call
     /\ UNCHANGED <<sync, schema, stream, pipes, indexer>>

\* caller c calls ins.decode({accounts, data})
Decode(c, accounts, data) ==
  /\ ncalls < MaxCalls
  /\ \E r \in {decode(ins, [accounts |-> accounts, data |-> data])} :
       Record(c, "decode", accounts, data, r)

\* caller c calls ins.decodeData(data)
DecodeData(c, data) ==
  /\ ncalls < MaxCalls
  /\ \E dd \in {decodeData(ins, data)} :
        Record(c, "decodeData", <<>>, data,
               [threw |-> dd.threw, err |-> dd.err, accounts |-> <<>>,
                data |-> dd.data, cache |-> dd.cache, creates |-> dd.creates,
                builds |-> dd.builds, checks |-> dd.checks,
                codecCalls |-> dd.codecCalls,
                codecOffset |-> dd.codecOffset])

Next ==
  \/ \E c \in Callers, a \in AccountLists, p \in Payloads : Decode(c, a, p)
  \/ \E c \in Callers, p \in Payloads : DecodeData(c, p)

Spec == Init /\ [][Next]_vars

\* every way of declaring d8, d4 and d1 in the object passed as d: the
\* Discriminator interface makes each of the three optional on its own
DeclaredCombinations ==
  [d8 : {Absent, HexCreate}, d4 : {Absent, HexFour}, d1 : {Absent, HexOne}]

InitDeclared ==
  /\ \E d \in DeclaredCombinations, c \in Codecs :
       ins = instruction(d, <<[role |-> "mint", index |-> 0],
                              [role |-> "user", index |-> 7]>>, c)
  /\ creates = 0
  /\ builds = 0
  /\ ncalls = 0
  /\ first = NoCall
  /\ last = NoCall
  /\ sync = NotRunning
  /\ schema = NotRunning
  /\ stream = NotRunning
  /\ pipes = NotRunning
  /\ indexer = NotRunning

SpecDeclared == InitDeclared /\ [][Next]_vars

\* each width declared with a constant written with the 0x prefix and
\* written without it
PrefixPairs ==
  { [NoDiscriminator EXCEPT !.d8 = HexCreate],
    [NoDiscriminator EXCEPT !.d8 = SubSeq(HexCreate, 3, 18)],
    [NoDiscriminator EXCEPT !.d4 = <<"0", "x">> \o HexFour],
    [NoDiscriminator EXCEPT !.d4 = HexFour],
    [NoDiscriminator EXCEPT !.d1 = HexOne],
    [NoDiscriminator EXCEPT !.d1 = SubSeq(HexOne, 3, 4)] }

InitPrefix ==
  /\ \E d \in PrefixPairs, c \in Codecs :
       ins = instruction(d, <<[role |-> "mint", index |-> 0],
                              [role |-> "user", index |-> 7]>>, c)
  /\ creates = 0
  /\ builds = 0
  /\ ncalls = 0
  /\ first = NoCall
  /\ last = NoCall
  /\ sync = NotRunning
  /\ schema = NotRunning
  /\ stream = NotRunning
  /\ pipes = NotRunning
  /\ indexer = NotRunning

SpecPrefix == InitPrefix /\ [][Next]_vars

(***************************************************************************)
(* sql/scripts/sync.ts.  The text of a .sql file is a sequence of tokens:  *)
(* a comment line (-- ...), the head of a CREATE ... VIEW statement with   *)
(* its view type and name, other SQL text, and the semicolon.              *)
(***************************************************************************)
Comment == [t |-> "--", kind |-> "", name |-> ""]
Semicolon == [t |-> ";", kind |-> "", name |-> ""]
OtherSql == [t |-> "sql", kind |-> "", name |-> ""]
CreateView(kind, name) == [t |-> "create", kind |-> kind, name |-> name]

\* content.split(';'): the pieces between the semicolons, the piece after
\* the last one included
RECURSIVE SplitSemicolon(_, _)
SplitSemicolon(content, piece) ==
  IF content = <<>> THEN <<piece>>
  ELSE IF Head(content) = Semicolon
       THEN <<piece>> \o SplitSemicolon(Tail(content), <<>>)
       ELSE SplitSemicolon(Tail(content), Append(piece, Head(content)))

\* .map(s => s.trim()).filter(s => s.length > 0 && !s.startsWith('--'))
statements(content) ==
  SelectSeq(SplitSemicolon(content, <<>>),
            LAMBDA s : Len(s) > 0 /\ Head(s) # Comment)

\* the names one of the four regular expressions matches, in text order
RegexMatches(content, kind) ==
  Bind(SelectSeq(content, LAMBDA tok : tok.t = "create" /\ tok.kind = kind),
       LAMBDA m : [i \in 1..Len(m) |-> m[i].name])

\* viewNames as dropExistingViews collects it: materialized, live, window,
\* regular
viewNames(content) ==
  RegexMatches(content, "MATERIALIZED") \o RegexMatches(content, "LIVE")
    \o RegexMatches(content, "WINDOW") \o RegexMatches(content, "VIEW")

\* the four files createExampleFiles writes, in the order files.sort() gives
\* them: live_views.sql, materialized_views.sql, regular_views.sql,
\* window_views.sql; each is two comment lines, the CREATE statement and ;
ExampleFiles ==
  << <<Comment, Comment, CreateView("LIVE", "live_transaction_rate"), Semicolon>>,
     <<Comment, Comment,
       CreateView("MATERIALIZED", "transactions_per_block_hourly"), Semicolon>>,
     <<Comment, Comment, CreateView("VIEW", "latest_transactions"), Semicolon>>,
     <<Comment, Comment,
       CreateView("WINDOW", "hourly_transaction_window"), Semicolon>> >>

\* the views/ folder at the start: missing or empty, one file, two files
ViewsDirs ==
  { <<>>,
    << <<CreateView("VIEW", "v1"), Semicolon, OtherSql, Semicolon>> >>,
    << <<CreateView("MATERIALIZED", "m1"), Semicolon,
         CreateView("VIEW", "v1"), Semicolon>>,
       <<CreateView("LIVE", "l1"), Semicolon, Comment>> >> }

\* runs of the script
MaxRuns == 2

\* what a query does to the set of views of the database
CreatedBy(stmt) ==
  IF Head(stmt).t = "create" THEN {Head(stmt).name} ELSE {}

\* no Instruction is in use
NoInstruction ==
  /\ ins = instruction(NoDiscriminator, <<>>, <<>>)
  /\ creates = 0
  /\ builds = 0
  /\ ncalls = 0
  /\ first = NoCall
  /\ last = NoCall

InitSync ==
  /\ \E d \in ViewsDirs :
       sync = [pc |-> "idle", dir |-> d, db |-> {}, files |-> <<>>,
               drops |-> <<>>, stmts |-> <<>>, log |-> <<>>,
               processed |-> FALSE, exit |-> "none", runs |-> 0]
  /\ NoInstruction
  /\ schema = NotRunning
  /\ stream = NotRunning
  /\ pipes = NotRunning
  /\ indexer = NotRunning

\* main, up to the loop over the files: createConnection pings the server
\* (pinged: the ping succeeded); with no file found the examples are written
main(pinged) ==
  /\ sync.pc = "idle"
  /\ sync.runs < MaxRuns
  /\ sync' =
       IF ~pinged
       THEN [sync EXCEPT !.runs = @ + 1, !.exit = "1", !.log = <<>>,
                         !.processed = FALSE]
       ELSE IF sync.dir = <<>>
       THEN [sync EXCEPT !.runs = @ + 1, !.exit = "0", !.log = <<>>,
                         !.processed = FALSE, !.dir = ExampleFiles]
       ELSE [sync EXCEPT !.runs = @ + 1, !.exit = "none", !.log = <<>>,
                         !.processed = FALSE, !.files = sync.dir,
                         !.pc = "file"]
  /\ UNCHANGED <<vars, schema, stream, pipes, indexer>>

\* the loop of main: the next file is handed to processSqlFile, which reads
\* it and has dropExistingViews collect the names; after the last file main
\* returns
processSqlFile ==
  /\ sync.pc = "file"
  /\ sync' =
       IF sync.files = <<>>
       THEN [sync EXCEPT !.pc = "idle", !.exit = "0"]
       ELSE [sync EXCEPT !.pc = "drop", !.log = <<>>, !.processed = FALSE,
                         !.drops = Reverse(viewNames(Head(sync.files))),
                         !.stmts = statements(Head(sync.files))]
  /\ UNCHANGED <<vars, schema, stream, pipes, indexer>>

\* dropExistingViews: DROP VIEW IF EXISTS for the next name; a failure is
\* logged and the loop goes on
dropExistingViews(ok) ==
  /\ sync.pc = "drop"
  /\ sync.drops # <<>>
  /\ sync' =
       [sync EXCEPT !.drops = Tail(@),
                    !.db = IF ok THEN @ \ {Head(sync.drops)} ELSE @,
                    !.log = Append(@, [op |-> "drop", ok |-> ok,
                                       names |-> {Head(sync.drops)}])]
  /\ UNCHANGED <<vars, schema, stream, pipes, indexer>>

\* dropExistingViews returns
dropsDone ==
  /\ sync.pc = "drop"
  /\ sync.drops = <<>>
  /\ sync' = [sync EXCEPT !.pc = "exec"]
  /\ UNCHANGED <<vars, schema, stream, pipes, indexer>>

\* a statement's failure is logged and the loop goes on, as a drop's is
execStatementContinues(ok) ==
  /\ sync.pc = "exec"
  /\ sync.stmts # <<>>
  /\ sync' =
       [sync EXCEPT !.stmts = Tail(@),
                    !.db = IF ok THEN @ \cup CreatedBy(Head(sync.stmts)) ELSE @,
                    !.log = Append(@, [op |-> "exec", ok |-> ok,
                             names |-> CreatedBy(Head(sync.stmts))])]
  /\ UNCHANGED <<vars, schema, stream, pipes, indexer>>

\* the loop of processSqlFile: clickhouse.exec of the next statement; a
\* failure is rethrown, main catches it and exits with status 1
execStatement(ok) ==
  /\ sync.pc = "exec"
  /\ sync.stmts # <<>>
  /\ sync' =
       IF ok
       THEN [sync EXCEPT !.stmts = Tail(@),
                         !.db = @ \cup CreatedBy(Head(sync.stmts)),
                         !.log = Append(@, [op |-> "exec", ok |-> TRUE,
                                  names |-> CreatedBy(Head(sync.stmts))])]
       ELSE [sync EXCEPT !.pc = "idle", !.exit = "1",
                         !.log = Append(@, [op |-> "exec", ok |-> FALSE,
                                  names |-> CreatedBy(Head(sync.stmts))])]
  /\ UNCHANGED <<vars, schema, stream, pipes, indexer>>

\* processSqlFile returns: every statement of the file was executed
fileDone ==
  /\ sync.pc = "exec"
  /\ sync.stmts = <<>>
  /\ sync' = [sync EXCEPT !.pc = "file", !.files = Tail(@),
                          !.processed = TRUE]
  /\ UNCHANGED <<vars, schema, stream, pipes, indexer>>

NextSync ==
  \/ \E pinged \in BOOLEAN : main(pinged)
  \/ processSqlFile
  \/ \E ok \in BOOLEAN : dropExistingViews(ok)
  \/ dropsDone
  \/ \E ok \in BOOLEAN : execStatement(ok)
  \/ fileDone

SpecSync == InitSync /\ [][NextSync]_sync

(***************************************************************************)
(* utils/database.ts: loadSqlFiles and ensureTables.  The text of a file   *)
(* is a sequence of tokens as above, with white space (Blank) and the head *)
(* of a CREATE TABLE statement besides.                                    *)
(***************************************************************************)
Blank == [t |-> " ", kind |-> "", name |-> ""]
CreateTable(name) == [t |-> "sql", kind |-> "TABLE", name |-> name]

\* t.trim().length > 0
TrimmedNonEmpty(piece) == \E i \in 1..Len(piece) : piece[i] # Blank

\* tables.flatMap((table) => table.split(';').filter(...))
RECURSIVE FlatMapSplit(_)
FlatMapSplit(tables) ==
  IF tables = <<>> THEN <<>>
  ELSE SelectSeq(SplitSemicolon(Head(tables), <<>>), TrimmedNonEmpty)
       \o FlatMapSplit(Tail(tables))

\* what directoryOrFile names: a schema.sql of four statements, a folder of
\* two files (one with an empty piece and a closing comment), a file that
\* holds the same statement twice, an empty folder
SchemaPaths ==
  { << <<CreateTable("t1"), Semicolon, Blank,
         CreateView("MATERIALIZED", "m1"), Semicolon, Blank,
         CreateView("VIEW", "v1"), Semicolon, Blank,
         CreateView("VIEW", "v2"), Semicolon, Blank>> >>,
    << <<CreateTable("t1"), Semicolon, Semicolon, Blank, Comment>>,
       <<Blank, CreateTable("t2"), Semicolon,
         CreateView("VIEW", "v1"), Semicolon>> >>,
    << <<CreateTable("t1"), Semicolon, CreateTable("t1"), Semicolon>> >>,
    <<>> }

InitTables ==
  /\ \E d \in SchemaPaths :
       schema = [pc |-> "load", files |-> d, loaded |-> FALSE,
                 tables |-> <<>>, sent |-> <<>>, settled |-> "none"]
  /\ NoInstruction
  /\ sync = NotRunning
  /\ stream = NotRunning
  /\ pipes = NotRunning
  /\ indexer = NotRunning

\* await loadSqlFiles(dir): readdir or readFile may fail (read: they did
\* not), and the rejection is ensureTables' own
loadSqlFiles(read) ==
  /\ schema.pc = "load"
  /\ schema' =
       IF read
       THEN [schema EXCEPT !.pc = "loop", !.loaded = TRUE,
                           !.tables = FlatMapSplit(schema.files)]
       ELSE [schema EXCEPT !.pc = "done", !.settled = "rejected"]
  /\ UNCHANGED <<vars, sync, stream, pipes, indexer>>

\* the statement's failure is rethrown instead of logged
commandRethrows(ok) ==
  /\ schema.pc = "loop"
  /\ schema.tables # <<>>
  /\ schema' =
       IF ok
       THEN [schema EXCEPT !.tables = Tail(@),
               !.sent = Append(@, [query |-> Head(schema.tables), ok |-> ok])]
       ELSE [schema EXCEPT !.pc = "done", !.settled = "rejected",
               !.sent = Append(@, [query |-> Head(schema.tables), ok |-> ok])]
  /\ UNCHANGED <<vars, sync, stream, pipes, indexer>>

\* one turn of the loop: await clickhouse.command({ query: table }); when it
\* fails the catch block logs and the loop goes on
command(ok) ==
  /\ schema.pc = "loop"
  /\ schema.tables # <<>>
  /\ schema' =
       [schema EXCEPT !.tables = Tail(@),
          !.sent = Append(@, [query |-> Head(schema.tables), ok |-> ok])]
  /\ UNCHANGED <<vars, sync, stream, pipes, indexer>>

\* the loop is over and ensureTables resolves
ensureTables ==
  /\ schema.pc = "loop"
  /\ schema.tables = <<>>
  /\ schema' = [schema EXCEPT !.pc = "done", !.settled = "resolved"]
  /\ UNCHANGED <<vars, sync, stream, pipes, indexer>>

NextTables ==
  \/ \E read \in BOOLEAN : loadSqlFiles(read)
  \/ \E ok \in BOOLEAN : command(ok)
  \/ ensureTables

SpecTables == InitTables /\ [][NextTables]_schema

(***************************************************************************)
(* The SSE endpoints GET /events and GET /tokens/stream: one connected     *)
(* client, the table solana_pumpfun_tokens and the clock.  Rows are        *)
(* inserted in batches that share one creation_time (the deploy time of    *)
(* their block, never later than the time of the insert); a batch records  *)
(* how many rows it holds (n) and how many of them the client has been     *)
(* sent (got).                                                             *)
(***************************************************************************)
\* LIMIT 5 of /events and LIMIT 50 of /tokens/stream
EventsLimit == 5
TokensLimit == 50

Endpoints ==
  { [path |-> "/events", limit |-> EventsLimit],
    [path |-> "/tokens/stream", limit |-> TokensLimit] }

\* the clock runs from 0 to MaxTime; at most MaxBatches batches are inserted
MaxTime == 3
MaxBatches == 2

\* Date.now() when start(controller) runs
ConnectTime == 1

\* polls in flight together: the initial poll() and those of setInterval
PollSlots == {1, 2}

Min(a, b) == IF a <= b THEN a ELSE b

RECURSIVE SumSeq(_)
SumSeq(q) == IF q = <<>> THEN 0 ELSE Head(q) + SumSeq(Tail(q))

\* ORDER BY creation_time DESC: the orders of the batches it allows (rows of
\* equal creation_time may come in any order)
OrdersDesc(rows) ==
  { p \in [1..Len(rows) -> 1..Len(rows)] :
      /\ \A i, j \in 1..Len(rows) : i # j => p[i] # p[j]
      /\ \A i, j \in 1..Len(rows) : i < j => rows[p[i]].ct >= rows[p[j]].ct }

\* WHERE creation_time > lastCheck ... LIMIT limit, along the order p: how
\* many rows of each batch are returned
RECURSIVE TakeLimit(_, _, _, _, _, _)
TakeLimit(p, i, rows, lastCheck, left, acc) ==
  IF i > Len(rows) THEN acc
  ELSE Bind(IF rows[p[i]].ct > lastCheck THEN Min(rows[p[i]].n, left) ELSE 0,
            LAMBDA k : TakeLimit(p, i + 1, rows, lastCheck, left - k,
                                 [acc EXCEPT ![p[i]] = k]))

QueryResults(rows, lastCheck, limit) ==
  { TakeLimit(p, 1, rows, lastCheck, limit, [b \in 1..Len(rows) |-> 0]) :
      p \in OrdersDesc(rows) }

\* the counts of rows sent so far once a result is enqueued: of the k rows
\* of a batch just sent, any number may have been sent before
RECURSIVE GotAfter(_, _, _)
GotAfter(rows, result, b) ==
  IF b > Len(rows) THEN {<<>>}
  ELSE Bind(IF b <= Len(result) THEN result[b] ELSE 0, LAMBDA k :
         { <<g>> \o rest :
             g \in (IF rows[b].got >= k THEN rows[b].got ELSE k)
                     ..Min(rows[b].n, rows[b].got + k),
             rest \in GotAfter(rows, result, b + 1) })

Idle == [busy |-> FALSE, result |-> <<>>]

InitStream ==
  /\ \E e \in Endpoints :
       stream = [path |-> e.path, limit |-> e.limit, connected |-> TRUE,
                 failed |-> FALSE, now |-> ConnectTime,
                 lastCheck |-> ConnectTime, rows |-> <<>>,
                 polls |-> [slot \in PollSlots |-> Idle]]
  /\ NoInstruction
  /\ sync = NotRunning
  /\ schema = NotRunning
  /\ pipes = NotRunning
  /\ indexer = NotRunning

\* a batch is one row, or one row more than the endpoint's LIMIT
BatchSizes == {1, EventsLimit + 1, TokensLimit + 1}

\* the indexer inserts a batch of n rows deployed at time ct
insert(ct, n) ==
  /\ Len(stream.rows) < MaxBatches
  /\ n \in {1, stream.limit + 1}
  /\ ct <= stream.now
  /\ stream' = [stream EXCEPT
                  !.rows = Append(@, [ct |-> ct, n |-> n, got |-> 0])]
  /\ UNCHANGED <<vars, sync, schema, pipes, indexer>>

\* time passes
tick ==
  /\ stream.now < MaxTime
  /\ stream' = [stream EXCEPT !.now = @ + 1]
  /\ UNCHANGED <<vars, sync, schema, pipes, indexer>>

\* poll, up to await clickhouse.query(...): the query is built from
\* lastCheck and answered from the rows in the table; when it fails the
\* catch block enqueues an error event
pollQuery(slot, ok) ==
  /\ stream.connected
  /\ ~stream.polls[slot].busy
  /\ \/ /\ ok
        /\ \E r \in QueryResults(stream.rows, stream.lastCheck, stream.limit) :
             stream' = [stream EXCEPT
                          !.polls[slot] = [busy |-> TRUE, result |-> r]]
     \/ /\ ~ok
        /\ stream' = [stream EXCEPT !.failed = TRUE]
  /\ UNCHANGED <<vars, sync, schema, pipes, indexer>>

\* poll, after the await: a result that is not empty is enqueued as one data
\* event and lastCheck becomes the time it is now; /tokens/stream then runs
\* its stats query (stats: it succeeded)
pollDeliver(slot, stats) ==
  /\ stream.connected
  /\ stream.polls[slot].busy
  /\ \E after \in
        (IF SumSeq(stream.polls[slot].result) > 0
         THEN { [b \in 1..Len(stream.rows) |->
                   [stream.rows[b] EXCEPT !.got = g[b]]] :
                  g \in GotAfter(stream.rows, stream.polls[slot].result, 1) }
         ELSE { stream.rows }) :
       stream' =
         [stream EXCEPT
            !.rows = after,
            !.lastCheck = IF SumSeq(stream.polls[slot].result) > 0
                          THEN stream.now ELSE @,
            !.failed = IF stream.path = "/tokens/stream" /\ ~stats
                       THEN TRUE ELSE @,
            !.polls[slot] = Idle]
  /\ UNCHANGED <<vars, sync, schema, pipes, indexer>>

\* the client goes away: the stream is cancelled and clearInterval runs
cancel ==
  /\ stream.connected
  /\ stream' = [stream EXCEPT !.connected = FALSE,
                              !.polls = [slot \in PollSlots |-> Idle]]
  /\ UNCHANGED <<vars, sync, schema, pipes, indexer>>

NextStream ==
  \/ \E ct \in 0..MaxTime, n \in BatchSizes : insert(ct, n)
  \/ tick
  \/ \E slot \in PollSlots, ok \in BOOLEAN : pollQuery(slot, ok)
  \/ \E slot \in PollSlots, stats \in BOOLEAN : pollDeliver(slot, stats)
  \/ cancel

SpecStream == InitStream /\ [][NextStream]_stream

\* setInterval keeps calling poll while the client is connected, and every
\* query settles
FairSpecStream ==
  /\ SpecStream
  /\ WF_stream(\E slot \in PollSlots, ok \in BOOLEAN : pollQuery(slot, ok))
  /\ WF_stream(\E slot \in PollSlots, stats \in BOOLEAN :
                 pollDeliver(slot, stats))

(***************************************************************************)
(* utils/retry.ts, called by main once for every configured pipe.          *)
(***************************************************************************)

\* the defaults of retry's parameters
DefaultMaxAttempts == 3
DefaultDelay == 1000

\* the largest maxAttempts a caller passes
AttemptsBound == 3
\* maxAttempts is any number: negative, zero, one, the default
MaxAttemptsValues == -1..AttemptsBound
Delays == {250, DefaultDelay}

\* the pipes of soldexer.json that main maps over
Pipes == {"swaps", "pumpfun-tokens"}

\* what the k-th invocation of fn rejects with, and what it resolves with
ErrorOf(k) == [type |-> "Error", message |-> k]
ValueOf(k) == [type |-> "value", of |-> k]

\* for (let attempt = 1; attempt <= maxAttempts; attempt++)
loopGuardOneMore(attempt, maxAttempts) == attempt <= maxAttempts + 1
loopGuard(attempt, maxAttempts) == attempt <= maxAttempts

\* lastError = error as Error
caughtFirst(lastError, error) ==
  IF lastError = Undefined THEN error ELSE lastError
caught(lastError, error) == error

\* delay *= 2
backoffConstant(delay) == delay
backoff(delay) == delay * 2

\* if (attempt < maxAttempts): a wait follows the failed attempt
waitsAfter(attempt, maxAttempts) == attempt < maxAttempts

\* the head of the loop: the body invokes fn and awaits it, and past the
\* loop comes throw lastError!
loop(r) ==
  IF loopGuard(r.attempt, r.maxAttempts)
    THEN [r EXCEPT !.pc = "fn", !.calls = @ + 1, !.inflight = @ + 1,
                   !.trace = Append(@, [e |-> "fn", ms |-> 0])]
    ELSE [r EXCEPT !.pc = "rejected", !.result = r.lastError]

\* main calls retry(() => indexersMap[pipe](...)) with the default
\* maxAttempts and delay; other callers pass their own
InitRetry ==
  /\ \E m \in MaxAttemptsValues, d \in Delays :
       pipes = [p \in Pipes |->
                 [pc |-> "start", maxAttempts |-> m, delay0 |-> d,
                  delay |-> d, attempt |-> 1, lastError |-> Undefined,
                  calls |-> 0, inflight |-> 0, trace |-> <<>>,
                  result |-> Undefined]]
  /\ NoInstruction
  /\ sync = NotRunning
  /\ schema = NotRunning
  /\ stream = NotRunning
  /\ indexer = NotRunning

\* the call of retry runs to its first await
retry(p) ==
  /\ pipes[p].pc = "start"
  /\ pipes' = [pipes EXCEPT ![p] = loop(@)]
  /\ UNCHANGED <<vars, sync, schema, stream, indexer>>

\* return await fn()
fnResolved(r) ==
  [r EXCEPT !.pc = "resolved", !.inflight = @ - 1,
            !.result = ValueOf(r.calls),
            !.trace = Append(@, [e |-> "ok", ms |-> 0])]

\* catch (error): the error is kept and logged; then either the wait is
\* started, or attempt++ leads back to the head of the loop
fnRejected(r) ==
  Bind([r EXCEPT !.inflight = @ - 1,
                 !.lastError = caught(@, ErrorOf(r.calls)),
                 !.trace = Append(@, [e |-> "failed", ms |-> 0])],
       LAMBDA c :
         IF waitsAfter(c.attempt, c.maxAttempts)
           THEN [c EXCEPT !.pc = "sleep",
                          !.trace = Append(@, [e |-> "wait", ms |-> c.delay])]
           ELSE loop([c EXCEPT !.attempt = @ + 1]))

\* the promise of fn settles
fnSettles(p, ok) ==
  /\ pipes[p].pc = "fn"
  /\ pipes' = [pipes EXCEPT ![p] = IF ok THEN fnResolved(@)
                                        ELSE fnRejected(@)]
  /\ UNCHANGED <<vars, sync, schema, stream, indexer>>

\* setTimeout(resolve, delay) fires: delay *= 2, attempt++, the loop's head
timeout(p) ==
  /\ pipes[p].pc = "sleep"
  /\ pipes' = [pipes EXCEPT ![p] =
                 loop([@ EXCEPT !.delay = backoff(@), !.attempt = @ + 1])]
  /\ UNCHANGED <<vars, sync, schema, stream, indexer>>

NextRetry ==
  \/ \E p \in Pipes : retry(p)
  \/ \E p \in Pipes, ok \in BOOLEAN : fnSettles(p, ok)
  \/ \E p \in Pipes : timeout(p)

SpecRetry == InitRetry /\ [][NextRetry]_pipes

\* retry runs when it is called, every invocation of fn settles, and every
\* timer fires
FairSpecRetry ==
  /\ SpecRetry
  /\ \A p \in Pipes :
       /\ WF_pipes(retry(p))
       /\ WF_pipes(\E ok \in BOOLEAN : fnSettles(p, ok))
       /\ WF_pipes(timeout(p))

(***************************************************************************)
(* pumpfun-tokens/index.ts: the two loops that insert batches and ack.     *)
(***************************************************************************)

\* the two loops: pumpfunTokenCreationIndexer and PumpfunTokensPipe.start
Loops == {"pumpfunTokenCreationIndexer", "PumpfunTokensPipe.start"}
\* the batches the stream yields in one run, at most
MaxYields == 3
\* a batch is empty or holds one or two token creations
YieldSizes == {0, 1, 2}

Event(e, n) == [e |-> e, n |-> n]

InitPipe ==
  /\ \E l \in Loops :
       indexer = [loop |-> l, pc |-> "tables", n |-> 0, size |-> 0,
                  log |-> <<>>]
  /\ NoInstruction
  /\ sync = NotRunning
  /\ schema = NotRunning
  /\ stream = NotRunning
  /\ pipes = NotRunning

\* await ensureTables(...): the loop is entered when it resolves, and its
\* head asks the stream for the first batch
pipeStart(ok) ==
  /\ indexer.pc = "tables"
  /\ indexer' = IF ok
                  THEN [indexer EXCEPT !.pc = "next", !.n = 1,
                                       !.log = Append(@, Event("request", 1))]
                  ELSE [indexer EXCEPT !.pc = "rejected"]
  /\ UNCHANGED <<vars, sync, schema, stream, pipes>>

\* if (tokens.length === 0) continue; only PumpfunTokensPipe.start has it
skipsEmpty(which, size) == which = "PumpfunTokensPipe.start" /\ size = 0

\* the stream yields batch n: an empty batch of start goes back to the head
\* of the loop, any other batch is handed to clickhouse.insert
streamYield(size) ==
  /\ indexer.pc = "next"
  /\ indexer.n <= MaxYields
  /\ indexer' =
       IF skipsEmpty(indexer.loop, size)
         THEN [indexer EXCEPT
                 !.n = @ + 1, !.size = size,
                 !.log = @ \o <<Event("batch", indexer.n),
                                Event("skip", indexer.n),
                                Event("request", indexer.n + 1)>>]
         ELSE [indexer EXCEPT
                 !.pc = "insert", !.size = size,
                 !.log = @ \o <<Event("batch", indexer.n),
                                Event("insert", indexer.n)>>]
  /\ UNCHANGED <<vars, sync, schema, stream, pipes>>

\* the stream ends (the block range is exhausted), or it throws
streamEnd(ok) ==
  /\ indexer.pc = "next"
  /\ indexer' = [indexer EXCEPT !.pc = IF ok THEN "resolved" ELSE "rejected"]
  /\ UNCHANGED <<vars, sync, schema, stream, pipes>>

\* await clickhouse.insert(...) rejects: the loop and the function are left
insertRejectedAcks(r) ==
  [r EXCEPT !.pc = "ack",
            !.log = @ \o <<Event("insertFailed", r.n), Event("ack", r.n)>>]
insertRejected(r) ==
  [r EXCEPT !.pc = "rejected", !.log = Append(@, Event("insertFailed", r.n))]

\* await clickhouse.insert(...) resolves: ack() is called
insertResolved(r) ==
  [r EXCEPT !.pc = "ack",
            !.log = @ \o <<Event("inserted", r.n), Event("ack", r.n)>>]

clickhouseInsert(ok) ==
  /\ indexer.pc = "insert"
  /\ indexer' = IF ok THEN insertResolved(indexer) ELSE insertRejected(indexer)
  /\ UNCHANGED <<vars, sync, schema, stream, pipes>>

\* await ack() settles: resolved, the head of the loop asks for the next
\* batch; rejected, the loop and the function are left
streamAck(ok) ==
  /\ indexer.pc = "ack"
  /\ indexer' =
       IF ok
         THEN [indexer EXCEPT
                 !.pc = "next", !.n = @ + 1,
                 !.log = @ \o <<Event("acked", indexer.n),
                                Event("request", indexer.n + 1)>>]
         ELSE [indexer EXCEPT
                 !.pc = "rejected",
                 !.log = Append(@, Event("ackFailed", indexer.n))]
  /\ UNCHANGED <<vars, sync, schema, stream, pipes>>

NextPipe ==
  \/ \E ok \in BOOLEAN : pipeStart(ok)
  \/ \E size \in YieldSizes : streamYield(size)
  \/ \E ok \in BOOLEAN : streamEnd(ok)
  \/ \E ok \in BOOLEAN : clickhouseInsert(ok)
  \/ \E ok \in BOOLEAN : streamAck(ok)

SpecPipe == InitPipe /\ [][NextPipe]_indexer

(***************************************************************************)
(* What the claims speak of, stated from the declaration alone.            *)
(***************************************************************************)
\* the width declared: 8 for d8, 4 for d4, 1 for d1, 0 when none is declared
DeclaredWidth ==
  IF ins.d8 # Absent THEN 8
  ELSE IF ins.d4 # Absent THEN 4
  ELSE IF ins.d1 # Absent THEN 1
  ELSE 0

DeclaredHex ==
  IF ins.d8 # Absent THEN ins.d8
  ELSE IF ins.d4 # Absent THEN ins.d4
  ELSE ins.d1

DeclaredRead ==
  IF ins.d8 # Absent THEN "u64" ELSE IF ins.d4 # Absent THEN "u32" ELSE "u8"

DigitValue(c) ==
  CASE c = "0" -> 0 [] c = "1" -> 1 [] c = "2" -> 2 [] c = "3" -> 3
    [] c = "4" -> 4 [] c = "5" -> 5 [] c = "6" -> 6 [] c = "7" -> 7
    [] c = "8" -> 8 [] c = "9" -> 9 [] c = "a" -> 10 [] c = "b" -> 11
    [] c = "c" -> 12 [] c = "d" -> 13 [] c = "e" -> 14 [] c = "f" -> 15

RECURSIVE PairBytes(_)
PairBytes(h) ==
  IF Len(h) < 2 THEN <<>>
  ELSE <<16 * DigitValue(h[1]) + DigitValue(h[2])>> \o PairBytes(Tail(Tail(h)))

\* the bytes of a hex constant in the order they are written, after an
\* optional 0x
WrittenBytes(hex) ==
  IF Len(hex) >= 2 /\ SubSeq(hex, 1, 2) = <<"0", "x">>
  THEN PairBytes(Tail(Tail(hex)))
  ELSE PairBytes(hex)

\* a discriminator is declared and its constant has the declared width
WellFormed ==
  DeclaredWidth > 0 /\ Len(WrittenBytes(DeclaredHex)) = DeclaredWidth

\* the payload of the latest call begins with the declared constant
LeadingBytesMatch ==
  /\ Len(last.data) >= DeclaredWidth
  /\ SubSeq(last.data, 1, DeclaredWidth) = WrittenBytes(DeclaredHex)

\* the bytes of the latest call's payload after the declared width
Remainder == SubSeq(last.data, DeclaredWidth + 1, Len(last.data))

Called == last.op # "none"

\* the discriminator check of the latest call passed (decodeData invokes the
\* codec exactly when it did)
Validated == Called /\ last.codecCalls = 1

(***************************************************************************)
(* C1: a decode call whose payload begins with the declared constant and   *)
(* whose remaining bytes the codec accepts succeeds, and its data is what  *)
(* the codec alone yields on the bytes after the discriminator.            *)
(***************************************************************************)
C1_MatchingPayloadDecodes ==
  ( /\ last.op = "decode"
    /\ WellFormed
    /\ LeadingBytesMatch
    /\ ~CodecDecode(ins.data, Remainder, 0).threw )
  => /\ last.outcome.kind = "ok"
     /\ last.outcome.data = CodecDecode(ins.data, Remainder, 0).val

C1_Witness ==
  /\ last.op = "decode"
  /\ DeclaredWidth = 8
  /\ WellFormed
  /\ LeadingBytesMatch
  /\ last.outcome.kind = "ok"
  /\ Len(last.outcome.data) = 2

OutOfRangeRoles ==
  { ins.accounts[i].role : i \in { j \in 1..Len(ins.accounts) :
                                     ins.accounts[j].index >= Len(last.accounts) } }

ResultRoles ==
  { last.outcome.accounts[i].role : i \in 1..Len(last.outcome.accounts) }

C3_OutOfRangeFails ==
  (last.op = "decode" /\ OutOfRangeRoles # {})
  => /\ last.outcome.kind = "AccountIndexOutOfRange"
     /\ OutOfRangeRoles \cap ResultRoles = {}

RepeatsFirst ==
  /\ ncalls >= 2
  /\ last.op = first.op
  /\ last.accounts = first.accounts
  /\ last.data = first.data

C5_RepeatedCallsAgree == RepeatsFirst => last.outcome = first.outcome

C5_Witness ==
  /\ RepeatsFirst
  /\ last.op = "decode"
  /\ WellFormed
  /\ builds = 1
  /\ last.outcome.kind = "ok"
  /\ Len(last.outcome.data) = 2

(***************************************************************************)
(* C6: with none of d8, d4, d1 declared every payload passes validation,   *)
(* no byte is consumed by it, and the codec is applied to the payload from *)
(* offset 0.                                                               *)
(***************************************************************************)
C6_NoDiscriminatorAcceptsAll ==
  (Called /\ DeclaredWidth = 0)
  => LET c == CodecDecode(ins.data, last.data, 0)
     IN /\ last.codecCalls = 1
        /\ last.codecOffset = 0
        /\ (last.outcome.kind = "ok") = ~c.threw
        /\ ~c.threw => last.outcome.data = c.val
        /\ c.threw => last.outcome.kind = "RangeError"

C6_Witness ==
  /\ Called
  /\ DeclaredWidth = 0
  /\ last.data = Tag8Reversed \o <<5>>
  /\ last.codecOffset = 0
  /\ last.outcome.kind = "ok"
  /\ Len(last.outcome.data) = 2

(***************************************************************************)
(* C7 as claimed: over any sequence of decode and decodeData calls on one  *)
(* Instruction, createDiscriminatorAssertion runs at most once.            *)
(***************************************************************************)
C7_Original == creates <= 1

\* the declared constant holds fewer bytes than the declared width
ConstantTooShort ==
  DeclaredWidth > 0 /\ Len(WrittenBytes(DeclaredHex)) < DeclaredWidth

(***************************************************************************)
(* C7 amended: createDiscriminatorAssertion runs on the first call and,    *)
(* once it has returned, never again, whatever the outcome of the calls;   *)
(* when the declared constant holds fewer bytes than its width it throws   *)
(* before the cache is assigned, and it runs again on every call.          *)
(***************************************************************************)
C7_CreatedOnceUnlessItThrows ==
  IF ConstantTooShort
  THEN creates = ncalls /\ builds = 0 /\ ins._assertDiscriminator = NullAssertion
  ELSE creates = (IF ncalls = 0 THEN 0 ELSE 1)

C7_Witness ==
  /\ ncalls >= 2
  /\ WellFormed
  /\ creates = 1
  /\ first.outcome.kind = "AssertionError"
  /\ last.outcome.kind = "ok"

(***************************************************************************)
(* C8: however the calls of several callers on one Instruction are         *)
(* ordered, the cache is assigned at most once, it holds the check         *)
(* compiled from the declaration, and each call's outcome is the outcome   *)
(* of that call made alone on the Instruction as constructed.              *)
(***************************************************************************)
FreshIns == [ins EXCEPT !._assertDiscriminator = NullAssertion]

AloneOutcome ==
  IF last.op = "decode"
  THEN Outcome(decode(FreshIns, [accounts |-> last.accounts, data |-> last.data]))
  ELSE LET dd == decodeData(FreshIns, last.data)
       IN [kind |-> IF dd.threw THEN dd.err.kind ELSE "ok",
           accounts |-> <<>>, data |-> dd.data,
           actual |-> dd.err.actual, expected |-> dd.err.expected]

C8_CallersShareOneCheck ==
  /\ builds <= 1
  /\ ins._assertDiscriminator # NullAssertion
       => /\ builds = 1
          /\ ins._assertDiscriminator = createDiscriminatorAssertion(FreshIns).fn
  /\ Called => last.outcome = AloneOutcome

C8_Witness ==
  /\ ncalls >= 2
  /\ first.caller # last.caller
  /\ first.data # last.data
  /\ WellFormed
  /\ builds = 1
  /\ first.outcome.kind = "ok"
  /\ last.outcome.kind = "AssertionError"

(***************************************************************************)
(* C9: for a constant of the declared width, validation passes exactly     *)
(* when the payload's first bytes are the constant's bytes, in the order   *)
(* they are written in the hex string.                                     *)
(***************************************************************************)
C9_ByteForByte == (Called /\ WellFormed) => (Validated <=> LeadingBytesMatch)

\* a payload that holds the constant's bytes in reverse order is rejected
C9_Witness ==
  /\ Called
  /\ DeclaredWidth = 8
  /\ WellFormed
  /\ last.data = Tag8Reversed \o <<5>>
  /\ ~Validated

(***************************************************************************)
(* C10: whenever the codec is invoked for a definition that declares a     *)
(* discriminator, the reader it is given stands at the declared width.     *)
(***************************************************************************)
C10_CodecStartsAfterDiscriminator ==
  (Called /\ DeclaredWidth > 0 /\ last.codecCalls > 0)
  => last.codecOffset = DeclaredWidth

C10_Witness ==
  /\ last.op = "decodeData"
  /\ DeclaredWidth = 4
  /\ last.codecCalls = 1
  /\ last.codecOffset = 4
  /\ last.outcome.kind = "ok"
  /\ Len(last.outcome.data) = 2

(***************************************************************************)
(* C11 as claimed: every Instruction that instruction() returns has at     *)
(* most one of d8, d4 and d1 set.                                          *)
(***************************************************************************)
SetWidths == { f \in {"d8", "d4", "d1"} : ins[f] # Absent }

C11_Original == Cardinality(SetWidths) <= 1

\* the widest width set: d8 before d4 before d1
WidestRead ==
  IF "d8" \in SetWidths THEN "u64"
  ELSE IF "d4" \in SetWidths THEN "u32"
  ELSE IF "d1" \in SetWidths THEN "u8"
  ELSE "none"

(***************************************************************************)
(* C11 amended: instruction() copies whatever d declares, so an            *)
(* Instruction can have two or all three of d8, d4, d1 set; the check      *)
(* compiled for it is that of the widest one set (d8 before d4 before d1), *)
(* and a payload passes validation only if it begins with that constant.   *)
(***************************************************************************)
C11_WidestDeclaredIsChecked ==
  /\ Cardinality(SetWidths) \in 0..3
  /\ ins._assertDiscriminator # NullAssertion
       => ins._assertDiscriminator.read = WidestRead
  /\ (Validated /\ SetWidths # {}) => LeadingBytesMatch

C11_Witness ==
  /\ Cardinality(SetWidths) = 3
  /\ ins._assertDiscriminator.read = "u64"
  /\ first.data = <<24, 5, 6>>
  /\ first.outcome.kind = "RangeError"
  /\ last.outcome.kind = "ok"

(***************************************************************************)
(* C12: when every declared index is below the length of the account list, *)
(* the resolved accounts hold exactly the declared roles, each with the    *)
(* address at its declared index (two roles on one index both get that     *)
(* address), and the call is rejected only if decoding the data rejects.   *)
(***************************************************************************)
DeclaredRoles == { ins.accounts[i].role : i \in 1..Len(ins.accounts) }

SlotOf(role) ==
  (CHOOSE s \in { ins.accounts[i] : i \in 1..Len(ins.accounts) } :
     s.role = role).index

C12_InRangeRolesResolved ==
  (last.op = "decode" /\ OutOfRangeRoles = {})
  => /\ (last.outcome.kind = "ok") = ~decodeData(FreshIns, last.data).threw
     /\ last.outcome.kind = "ok"
          => /\ ResultRoles = DeclaredRoles
             /\ Len(last.outcome.accounts) = Len(ins.accounts)
             /\ \A i \in 1..Len(last.outcome.accounts) :
                  last.outcome.accounts[i].value =
                    last.accounts[SlotOf(last.outcome.accounts[i].role) + 1]

C12_Witness ==
  /\ last.op = "decode"
  /\ OutOfRangeRoles = {}
  /\ last.outcome.kind = "ok"
  /\ Len(last.outcome.accounts) = 3
  /\ \E i, j \in 1..3 :
       /\ i # j
       /\ last.outcome.accounts[i].value = "A1"
       /\ last.outcome.accounts[j].value = "A1"

(***************************************************************************)
(* C13 as claimed: the roles of the resolved accounts appear in the order  *)
(* in which the slot map declares them, whatever the role names are.       *)
(***************************************************************************)
RoleSeq(q) == [i \in 1..Len(q) |-> q[i].role]

C13_Original ==
  (last.op = "decode" /\ last.outcome.kind = "ok")
  => RoleSeq(last.outcome.accounts) = RoleSeq(ins.accounts)

\* a role name that is a canonical array index
IntegerLike(role) ==
  role \in {"0", "1", "2", "3", "4", "5", "6", "7", "8", "9"}

(***************************************************************************)
(* C13 amended: the roles whose names are not integer-like appear in the   *)
(* order in which the slot map declares them; the roles whose names are    *)
(* integer-like come before all of them, in ascending numeric order,       *)
(* wherever they were declared.                                            *)
(***************************************************************************)
C13_DeclarationOrderAfterIntegerKeys ==
  (last.op = "decode" /\ last.outcome.kind = "ok")
  => LET got == RoleSeq(last.outcome.accounts)
         declared == RoleSeq(ins.accounts)
     IN /\ SelectSeq(got, LAMBDA r : ~IntegerLike(r))
             = SelectSeq(declared, LAMBDA r : ~IntegerLike(r))
        /\ \A i, j \in 1..Len(got) :
             (i < j /\ IntegerLike(got[j]))
             => /\ IntegerLike(got[i])
                /\ DigitValue(got[i]) < DigitValue(got[j])
        /\ { got[i] : i \in 1..Len(got) } = DeclaredRoles

C13_Witness ==
  /\ last.op = "decode"
  /\ last.outcome.kind = "ok"
  /\ RoleSeq(ins.accounts) = <<"b", "1", "0">>
  /\ RoleSeq(last.outcome.accounts) = <<"0", "1", "b">>

(***************************************************************************)
(* C14: when the discriminator check passes and the codec fails with an    *)
(* error e on the bytes that follow, decode fails with e itself: the same  *)
(* kind and the same fields, and no data is returned.                      *)
(***************************************************************************)
CodecAlone == CodecDecode(ins.data, Remainder, 0)

Failed == last.op = "decode" /\ last.outcome.kind # "ok"

DataThenAccounts(self, raw) ==
  LET dd == decodeData(self, raw.data)
  IN IF dd.threw
     THEN [kind |-> dd.err.kind, accounts |-> <<>>, data |-> <<>>,
           actual |-> dd.err.actual, expected |-> dd.err.expected]
     ELSE [kind |-> "ok", accounts |-> decodeAccounts(self, raw.accounts),
           data |-> dd.data, actual |-> Undefined, expected |-> Undefined]

C18_DroppedViewsRecreated ==
  (sync.pc = "file" /\ sync.processed)
  => \A i \in 1..Len(sync.log) :
       (sync.log[i].op = "drop" /\ sync.log[i].ok)
       => \E j \in (i + 1)..Len(sync.log) :
            /\ sync.log[j].op = "exec"
            /\ sync.log[j].ok
            /\ sync.log[i].names \subseteq sync.log[j].names

(***************************************************************************)
(* C20: ensureTables sends every non-empty piece of the files, in file     *)
(* order and once each; a statement that fails does not stop the later     *)
(* ones, and ensureTables does not reject because of it.                   *)
(***************************************************************************)
\* the pieces between the semicolons of a text that hold more than white
\* space
RECURSIVE NonEmptyPieces(_, _)
NonEmptyPieces(text, piece) ==
  LET keep == IF \A i \in 1..Len(piece) : piece[i] = Blank
              THEN <<>> ELSE <<piece>>
  IN IF text = <<>> THEN keep
     ELSE IF Head(text) = Semicolon
          THEN keep \o NonEmptyPieces(Tail(text), <<>>)
          ELSE NonEmptyPieces(Tail(text), Append(piece, Head(text)))

RECURSIVE StatementsOf(_)
StatementsOf(files) ==
  IF files = <<>> THEN <<>>
  ELSE NonEmptyPieces(Head(files), <<>>) \o StatementsOf(Tail(files))

C20_EveryStatementSentOnce ==
  /\ [i \in 1..Len(schema.sent) |-> schema.sent[i].query]
       = SubSeq(StatementsOf(schema.files), 1, Len(schema.sent))
  /\ (schema.pc = "done" /\ schema.loaded)
       => /\ Len(schema.sent) = Len(StatementsOf(schema.files))
          /\ schema.settled = "resolved"
  /\ schema.settled = "rejected" => (~schema.loaded /\ schema.sent = <<>>)

C20_Witness ==
  /\ schema.pc = "done"
  /\ schema.settled = "resolved"
  /\ Len(schema.files) = 2
  /\ Len(schema.sent) = 4
  /\ ~schema.sent[1].ok
  /\ ~schema.sent[2].ok
  /\ schema.sent[2].query = <<Blank, Comment>>
  /\ schema.sent[4].ok

(***************************************************************************)
(* C19 as claimed: while the client stays connected and no query fails,    *)
(* every row inserted after the connection was opened is eventually sent   *)
(* to the client in a data event.                                          *)
(***************************************************************************)
C19_EveryRowDelivered ==
  \A b \in 1..MaxBatches :
    (Len(stream.rows) >= b)
    ~> \/ Len(stream.rows) >= b /\ stream.rows[b].got = stream.rows[b].n
       \/ ~stream.connected
       \/ stream.failed

(***************************************************************************)
(* C21: a drop that fails is swallowed: every name found in the file is    *)
(* still dropped (attempted) and the statements run after the drops; the   *)
(* first statement that fails is the last query of the run: the rest of    *)
(* the file and the files after it are left alone and the script exits     *)
(* with status 1.                                                          *)
(***************************************************************************)
LogOf(op) == SelectSeq(sync.log, LAMBDA e : e.op = op)

FailedStatements == SelectSeq(sync.log, LAMBDA e : e.op = "exec" /\ ~e.ok)

C21_DropsSwallowedStatementsAbort ==
  /\ [](sync.pc \in {"drop", "exec"}
          => /\ Len(LogOf("drop")) + Len(sync.drops)
                  = Len(viewNames(Head(sync.files)))
             /\ Len(LogOf("exec")) + Len(sync.stmts)
                  = Len(statements(Head(sync.files)))
             /\ sync.pc = "exec" => sync.drops = <<>>
             /\ sync.pc = "drop" => LogOf("exec") = <<>>)
  /\ [](FailedStatements # <<>>
          => /\ Len(FailedStatements) = 1
             /\ ~sync.log[Len(sync.log)].ok
             /\ sync.log[Len(sync.log)].op = "exec"
             /\ sync.pc = "idle"
             /\ sync.exit = "1")
  /\ [][FailedStatements # <<>>
          => \/ /\ sync'.runs = sync.runs + 1
                /\ sync'.log = <<>>
             \/ sync' = sync]_sync

\* a drop failed, the other drop and the first statement ran, the second
\* statement failed, and the second file was not touched
C21_Witness ==
  /\ Len(sync.log) = 4
  /\ sync.log[1].op = "drop" /\ ~sync.log[1].ok
  /\ sync.log[2].op = "drop"
  /\ sync.log[3].op = "exec" /\ sync.log[3].ok
  /\ sync.log[4].op = "exec" /\ ~sync.log[4].ok
  /\ Len(sync.files) = 2
  /\ sync.pc = "idle"
  /\ sync.exit = "1"

(***************************************************************************)
(* C23: a definition whose constant is written H and the definition whose  *)
(* constant is written 0x followed by H give every call the same outcome:  *)
(* they accept the same payloads and reject the same payloads.             *)
(***************************************************************************)
Prefixed(hex) == Len(hex) >= 2 /\ SubSeq(hex, 1, 2) = <<"0", "x">>

OtherSpelling(hex) ==
  IF Prefixed(hex) THEN SubSeq(hex, 3, Len(hex)) ELSE <<"0", "x">> \o hex

\* the Instruction as constructed, its constant written the other way
Twin ==
  IF ins.d8 # Absent THEN [FreshIns EXCEPT !.d8 = OtherSpelling(@)]
  ELSE IF ins.d4 # Absent THEN [FreshIns EXCEPT !.d4 = OtherSpelling(@)]
  ELSE [FreshIns EXCEPT !.d1 = OtherSpelling(@)]

C23_PrefixIrrelevant ==
  (last.op = "decode" /\ WellFormed)
  => last.outcome =
       Outcome(decode(Twin, [accounts |-> last.accounts, data |-> last.data]))

C23_Witness ==
  /\ ncalls >= 2
  /\ first.op = "decode"
  /\ last.op = "decode"
  /\ DeclaredWidth = 8
  /\ ~Prefixed(DeclaredHex)
  /\ first.outcome.kind = "ok"
  /\ last.outcome.kind = "AssertionError"

(***************************************************************************)
(* retry: what its trace shows.                                            *)
(***************************************************************************)
RECURSIVE Pow2(_)
Pow2(n) == IF n <= 0 THEN 1 ELSE 2 * Pow2(n - 1)

\* the positions of the trace of pipe p that hold event e
PositionsOf(p, e) == {i \in 1..Len(pipes[p].trace) : pipes[p].trace[i].e = e}
\* the number of failed attempts of pipe p before position i of its trace
FailedBefore(p, i) == Cardinality({j \in PositionsOf(p, "failed") : j < i})
Retrying == pipes # NotRunning
Settled(p) == pipes[p].pc \in {"resolved", "rejected"}

\* C22: the wait that follows the k-th failed attempt is delay * 2^(k-1) ms
\* and k < maxAttempts; every failed attempt k < maxAttempts is followed by
\* a wait; and a wait stands only between a failed attempt and the next
\* invocation of fn: the trace never starts with a wait, nothing follows a
\* success, and no wait follows the failed attempt number maxAttempts.
C22_ExponentialWaitsBetweenAttempts ==
  Retrying =>
    \A p \in Pipes :
      LET t == pipes[p].trace
          r == pipes[p]
      IN /\ \A i \in PositionsOf(p, "wait") :
              /\ i > 1 /\ t[i - 1].e = "failed"
              /\ FailedBefore(p, i) < r.maxAttempts
              /\ t[i].ms = r.delay0 * Pow2(FailedBefore(p, i) - 1)
              /\ i < Len(t) => t[i + 1].e = "fn"
              /\ i = Len(t) => r.pc = "sleep"
         /\ \A i \in PositionsOf(p, "failed") :
              /\ FailedBefore(p, i) + 1 < r.maxAttempts
                   => i < Len(t) /\ t[i + 1].e = "wait"
              /\ FailedBefore(p, i) + 1 >= r.maxAttempts
                   => i = Len(t) /\ r.pc = "rejected"
         /\ \A i \in PositionsOf(p, "ok") : i = Len(t) /\ r.pc = "resolved"
         /\ t # <<>> => t[1].e = "fn"

\* three attempts failed with the default delay: waits of 1000 and 2000 ms,
\* and none after the third failure
C22_Witness ==
  /\ Retrying
  /\ \E p \in Pipes :
       /\ pipes[p].pc = "rejected"
       /\ pipes[p].maxAttempts = DefaultMaxAttempts
       /\ pipes[p].delay0 = DefaultDelay
       /\ Cardinality(PositionsOf(p, "wait")) = 2
       /\ pipes[p].trace[Len(pipes[p].trace)].e = "failed"
  /\ \E p \in Pipes :
       /\ pipes[p].pc = "resolved"
       /\ Cardinality(PositionsOf(p, "wait")) = 1

\* what holds of one call of retry in every state
SequentialAtMostMaxAttempts(p) ==
  /\ pipes[p].calls <= pipes[p].maxAttempts \/ pipes[p].calls = 0
  /\ pipes[p].inflight <= 1
  /\ pipes[p].inflight = 1 <=> pipes[p].pc = "fn"
  /\ Cardinality(PositionsOf(p, "fn")) = pipes[p].calls
  /\ PositionsOf(p, "ok") # {} =>
       /\ pipes[p].pc = "resolved"
       /\ pipes[p].result = ValueOf(pipes[p].calls)
       /\ PositionsOf(p, "ok") = {Len(pipes[p].trace)}
  /\ pipes[p].pc = "resolved" => PositionsOf(p, "ok") # {}

\* C24: a call of retry invokes fn at most maxAttempts times and never has
\* two invocations in flight; the first success resolves retry with that
\* invocation's value, after which the call does nothing more; and with
\* every invocation of fn settling and every timer firing, each call of
\* retry settles.
C24_BoundedSequentialAndSettles ==
  /\ [](Retrying => \A p \in Pipes : SequentialAtMostMaxAttempts(p))
  /\ [][\A p \in Pipes : Settled(p) => pipes'[p] = pipes[p]]_pipes
  /\ \A p \in Pipes : <>Settled(p)

\* one call resolved by its second invocation while the other call, after
\* three failures, is rejected
C24_Witness ==
  /\ Retrying
  /\ \E p, q \in Pipes :
       /\ pipes[p].pc = "resolved"
       /\ pipes[p].calls = 2
       /\ pipes[p].result = ValueOf(2)
       /\ pipes[q].pc = "rejected"
       /\ pipes[q].calls = DefaultMaxAttempts

C26_FnInvokedBeforeSettling ==
  Retrying =>
    \A p \in Pipes :
      Settled(p) =>
        /\ pipes[p].calls >= 1
        /\ pipes[p].pc = "rejected" =>
             \E k \in 1..pipes[p].calls : pipes[p].result = ErrorOf(k)

(***************************************************************************)
(* The pipe loops: what the log of a run shows.                            *)
(***************************************************************************)
Piping == indexer # NotRunning
\* the positions of the log that hold event e of batch n
LogPositions(e, n) ==
  {i \in 1..Len(indexer.log) : indexer.log[i] = Event(e, n)}
Before(e, n, i) == \E j \in LogPositions(e, n) : j < i
Batches == 1..(MaxYields + 1)

\* ack() of a batch is called only after that batch's insert resolved
AckOnlyAfterInsert ==
  \A n \in Batches :
    \A i \in LogPositions("ack", n) : Before("inserted", n, i)

\* a failed insert ends the run: nothing follows it in the log, and neither
\* its batch nor a later one is acked
NoAckAfterFailedInsert ==
  \A n \in Batches :
    \A i \in LogPositions("insertFailed", n) :
      /\ i = Len(indexer.log)
      /\ indexer.pc = "rejected"
      /\ \A m \in Batches : m >= n => LogPositions("ack", m) = {}

\* the batch after n is requested only once the ack of n has resolved
NextOnlyAfterAck(n) ==
  \A i \in LogPositions("request", n + 1) : Before("acked", n, i)

\* start skipped batch n: it was empty, and was neither inserted nor acked
Skipped(n) ==
  /\ indexer.loop = "PumpfunTokensPipe.start"
  /\ LogPositions("skip", n) # {}
  /\ LogPositions("insert", n) = {}
  /\ LogPositions("ack", n) = {}

\* C27 as stated: in both loops ack follows the successful insert, a failed
\* insert is followed by no ack, and the next batch is requested only after
\* the ack of the current one has completed.
C27_Original ==
  Piping =>
    /\ AckOnlyAfterInsert
    /\ NoAckAfterFailedInsert
    /\ \A n \in 1..MaxYields : NextOnlyAfterAck(n)

\* C27: in both loops ack() of a batch is called only after that batch's
\* insert resolved, and a failed insert ends the run with no ack for that
\* batch or a later one; in pumpfunTokenCreationIndexer the next batch is
\* requested only after the current batch's ack resolved, and in
\* PumpfunTokensPipe.start the same holds of every batch that is not empty,
\* while an empty batch is skipped: not inserted, not acked, and the next
\* batch is requested at once.
C27_AckAfterInsertEmptyBatchesSkipped ==
  Piping =>
    /\ AckOnlyAfterInsert
    /\ NoAckAfterFailedInsert
    /\ \A n \in 1..MaxYields : NextOnlyAfterAck(n) \/ Skipped(n)
    /\ \A n \in 1..MaxYields :
         LogPositions("skip", n) # {} =>
           /\ Skipped(n)
           /\ \A i \in LogPositions("skip", n) :
                /\ indexer.log[i - 1] = Event("batch", n)
                /\ indexer.log[i + 1] = Event("request", n + 1)
    /\ indexer.loop = "pumpfunTokenCreationIndexer" =>
         \A n \in 1..MaxYields : NextOnlyAfterAck(n)

\* a run of start: the first batch inserted and acked, the second empty and
\* skipped, the insert of the third failed
C27_Witness ==
  /\ Piping
  /\ indexer.loop = "PumpfunTokensPipe.start"
  /\ LogPositions("acked", 1) # {}
  /\ Skipped(2)
  /\ LogPositions("insertFailed", 3) # {}
  /\ indexer.pc = "rejected"

====
